---- MODULE Spec2Model ----
(***************************************************************************)
(* Model of src/data_loader.py: the module's start-up code, the stage      *)
(* get_listed_corp_codes (Fetcher), the stage get_kospi_company_info       *)
(* (Enricher), save_df_to_csv and initialize_dart_api, run by one          *)
(* sequential caller against a file system, a remote directory endpoint    *)
(* and a detail-lookup client.                                             *)
(*                                                                         *)
(* Python values:  None is <<>> and a present value v is <<v>>; a dict or  *)
(* an XML element is a function from its keys / child tags to strings; a   *)
(* DataFrame is the sequence of its rows; a path is the sequence of its    *)
(* components ('' is <<>>).                                                *)
(*                                                                         *)
(* src/data_loader.py:147 lacks the comma that ends the 'ir_url' entry of  *)
(* the dict literal; the literal is modelled with its nine entries.        *)
(***************************************************************************)
EXTENDS Integers, Sequences, FiniteSets, TLC

VARIABLES
    pc,            \* position of the single thread of control
    environ,       \* os.environ["OPENDART_API_KEY"]
    API_KEY,       \* module global, line 21
    dart_key,      \* the key registered with dart_fss (line 34)
    dart_reader,   \* the OpenDartReader the caller holds
    dirs,          \* directories on disk
    files,         \* regular files on disk: path -> content
    remote,        \* the body the directory endpoint served last
    response,      \* get_listed_corp_codes: the open streamed response
    root,          \* get_listed_corp_codes: the parsed document's children
    corp_codes_df, \* get_kospi_company_info: the input table
    i,             \* get_kospi_company_info: position of the loop
    data,          \* get_kospi_company_info: the list being collected
    fn,            \* the function called last
    arg_df,        \* save_df_to_csv called by the caller: its df
    arg_path,      \* save_df_to_csv called by the caller: its file_path
    ret,           \* how the last call ended, and what it returned
    log,           \* the requests, lookups and sleeps of the call in
                   \* progress, in order
    runs,          \* the completed get_listed_corp_codes calls, in order
    calls          \* number of calls the caller has made

vars == <<pc, environ, API_KEY, dart_key, dart_reader, dirs, files, remote,
          response, root, corp_codes_df, i, data, arg_df, arg_path, fn, ret,
          log, runs, calls>>

\* ------------------------------------------------------------------ bounds
MaxRecs == 2      \* children of a directory document / rows of a table
MaxCalls == 2     \* calls the caller makes in one process

\* ------------------------------------------------------------ Python values
None == <<>>
Some(v) == <<v>>

\* dict.get / Element.findtext: the value under the key, None when absent
get(d, k) == IF k \in DOMAIN d THEN Some(d[k]) ELSE None

\* truth value of an optional string: None and '' are false
truthy(o) == o # None /\ o[1] # ""

\* ---------------------------------------------------------------- the disk
BASE_DATA_DIR == <<"data", "raw">>
ALT_DIR == <<"out", "a", "b">>

\* line 44, line 115: the default of the stages' parameter output_dir
output_dir == BASE_DATA_DIR

dirname(path) == SubSeq(path, 1, Len(path) - 1)
join(dir, name) == Append(dir, name)
Prefixes(path) == {SubSeq(path, 1, n) : n \in 1..Len(path)}

\* os.makedirs(path, exist_ok=True) on the disk <<d, f>>; fault: the system
\* refuses to create a directory.  Raises for '' and when a component is a
\* regular file.
makedirs_raises(path, d, f, fault) ==
    \/ path = <<>>
    \/ Prefixes(path) \cap DOMAIN f # {}
    \/ fault /\ ~(Prefixes(path) \subseteq d)

makedirs_dirs(path, d) == d \cup Prefixes(path)

\* the files after content c is written to path
write(f, path, c) ==
    [p \in DOMAIN f \cup {path} |-> IF p = path THEN c ELSE f[p]]

\* a file opened for writing and not completed
Partial == [kind |-> "partial"]

\* outcome of writing a file: "ok"; "open": the open fails and the file is
\* left as it was; "write": the open truncates the file and a later write
\* fails
WriteOutcomes == {"ok", "open", "write"}

\* what can go wrong in one save_df_to_csv: os.makedirs fails, or to_csv
\* ends in one of WriteOutcomes
SaveFaults ==
    {[mkfault |-> TRUE, o |-> "ok"]}
    \cup {[mkfault |-> FALSE, o |-> o] : o \in WriteOutcomes}

write_result_mut_keep(f, path, c, o) ==
    CASE o = "ok" -> IF path \in DOMAIN f THEN f ELSE write(f, path, c)
      [] o = "open" -> f
      [] o = "write" -> write(f, path, Partial)

write_result(f, path, c, o) ==
    CASE o = "ok" -> write(f, path, c)
      [] o = "open" -> f
      [] o = "write" -> write(f, path, Partial)

\* ------------------------------------------------------------- DataFrames
ListedColumns == <<"corp_code", "corp_name", "corp_eng_name", "stock_code">>
KospiColumns == <<"corp_name", "corp_code", "stock_code", "ceo_name",
                  "industry_code", "established_date", "ir_url",
                  "corp_reg_number", "business_no">>

\* the columns of a table: the keys of the dicts it was built from, in order;
\* pd.DataFrame() and pd.DataFrame([]) have none
columns(df) ==
    IF df = <<>> THEN <<>>
    ELSE IF "ceo_name" \in DOMAIN df[1] THEN KospiColumns ELSE ListedColumns

\* how to_csv prints one cell: a missing value as the empty field
cell(o) == IF o = None THEN "" ELSE o[1]

\* DataFrame.to_csv(index=False): the header line and one line per row
to_csv(df) ==
    [kind |-> "csv",
     header |-> columns(df),
     lines |-> [n \in 1..Len(df) |->
                  [c \in 1..Len(columns(df)) |-> cell(df[n][columns(df)[c]])]]]

\* save_df_to_csv(df, file_path) on the disk <<d, f>>: mkfault and o are the
\* system's answers to the directory creation and to the write.  The
\* directory is created outside the try block, the write inside it; the
\* write also fails when file_path is a directory.  wrote: to_csv completed.
save_df_to_csv_mut_append(df, file_path, d, f, mkfault, o) ==
    IF makedirs_raises(dirname(file_path), d, f, mkfault)
    THEN [raised |-> TRUE, wrote |-> FALSE, dirs |-> d, files |-> f]
    ELSE IF file_path \in d
    THEN [raised |-> FALSE, wrote |-> FALSE,
          dirs |-> makedirs_dirs(dirname(file_path), d), files |-> f]
    ELSE [raised |-> FALSE, wrote |-> o = "ok",
          dirs |-> makedirs_dirs(dirname(file_path), d),
          files |-> IF o = "ok" /\ file_path \in DOMAIN f
                       /\ f[file_path].kind = "csv"
                    THEN write(f, file_path,
                               [kind |-> "csv",
                                header |-> f[file_path].header,
                                lines |-> f[file_path].lines
                                            \o to_csv(df).lines])
                    ELSE write_result(f, file_path, to_csv(df), o)]

save_df_to_csv(df, file_path, d, f, mkfault, o) ==
    IF makedirs_raises(dirname(file_path), d, f, mkfault)
    THEN [raised |-> TRUE, wrote |-> FALSE, dirs |-> d, files |-> f]
    ELSE IF file_path \in d
    THEN [raised |-> FALSE, wrote |-> FALSE,
          dirs |-> makedirs_dirs(dirname(file_path), d), files |-> f]
    ELSE [raised |-> FALSE, wrote |-> o = "ok",
          dirs |-> makedirs_dirs(dirname(file_path), d),
          files |-> write_result(f, file_path, to_csv(df), o)]

\* ------------------------------------------------ the directory endpoint
\* children of the document's root: <list> elements with their sub-elements,
\* and one element of another tag
E_ok1 == [tag |-> "list",
          sub |-> [corp_code |-> "00126380", corp_name |-> "SE",
                   corp_eng_name |-> "SEC", stock_code |-> "005930"]]
E_ok2 == [tag |-> "list",
          sub |-> [corp_name |-> "HX", corp_eng_name |-> "HYX",
                   stock_code |-> "000660"]]
E_none == [tag |-> "list",
           sub |-> [corp_code |-> "00100001", corp_name |-> "NA",
                    corp_eng_name |-> "NAC"]]
E_empty == [tag |-> "list",
            sub |-> [corp_code |-> "00100002", corp_name |-> "EM",
                     corp_eng_name |-> "EMC", stock_code |-> ""]]
E_short == [tag |-> "list",
            sub |-> [corp_code |-> "00100003", corp_name |-> "SH",
                     corp_eng_name |-> "SHC", stock_code |-> " "]]
E_long == [tag |-> "list",
           sub |-> [corp_code |-> "00100004", corp_name |-> "LO",
                    corp_eng_name |-> "LOC", stock_code |-> "0059301"]]
E_other == [tag |-> "status",
            sub |-> [corp_code |-> "00100005", stock_code |-> "035720"]]

Elements == {E_ok1, E_ok2, E_none, E_empty, E_short, E_long, E_other}

SeqsUpTo(S, n) == UNION {[1..m -> S] : m \in 0..n}

\* every document of up to MaxRecs children
Docs == SeqsUpTo(Elements, MaxRecs)

\* the documents the endpoint serves to a calling program
ServedElements == {E_ok1, E_ok2, E_none}
ServedDocs == SeqsUpTo(ServedElements, MaxRecs)

\* what the endpoint can send: a body that is no archive, an archive without
\* the member, an archive whose member fails its checksum, an archive whose
\* member is malformed markup, an archive with a well-formed document
NotZip == [kind |-> "html"]
Zip(m) == [kind |-> "zip", members |-> m]
Member(ok, wf, ch) == [crc |-> ok, wellformed |-> wf, children |-> ch]
NoMembers == [n \in {} |-> Member(TRUE, TRUE, <<>>)]
DocBody(doc) == Zip("CORPCODE.xml" :> Member(TRUE, TRUE, doc))

Payloads ==
    {NotZip, Zip(NoMembers),
     Zip("CORPCODE.xml" :> Member(FALSE, TRUE, <<>>)),
     Zip("CORPCODE.xml" :> Member(TRUE, FALSE, <<>>))}
    \cup {DocBody(doc) : doc \in ServedDocs}

\* the directory changes between requests: a record is registered at the
\* end of a well-formed document, or its oldest record is removed
IsDocBody(body) ==
    /\ body.kind = "zip"
    /\ "CORPCODE.xml" \in DOMAIN body.members
    /\ body.members["CORPCODE.xml"].crc
    /\ body.members["CORPCODE.xml"].wellformed

Updates(doc) ==
    {Append(doc, e) : e \in {x \in ServedElements : Len(doc) < MaxRecs}}
    \cup {Tail(doc) : x \in {y \in {1} : doc # <<>>}}

Versions(body) ==
    {body} \cup
    (IF IsDocBody(body)
     THEN {DocBody(doc) :
             doc \in Updates(body.members["CORPCODE.xml"].children)}
     ELSE {})

\* the complete archive file, and the extracted document file
ZipFile(payload) == [kind |-> "zip", data |-> payload]
XmlFile(m) == [kind |-> "xml", wellformed |-> m.wellformed,
               children |-> m.children]

\* zipfile.ZipFile(path): the file is a readable archive
is_zipfile(f, path) ==
    path \in DOMAIN f /\ f[path].kind = "zip" /\ f[path].data.kind = "zip"

\* ------------------------------------------------ get_listed_corp_codes
\* line 100: the filter on one element's stock_code
is_listed_mut_nonempty(stock_code) == truthy(stock_code)

is_listed(stock_code) == truthy(stock_code) /\ Len(stock_code[1]) = 6

\* lines 101-106: the dict built for a listed element
listed_row(corp) ==
    [corp_code |-> get(corp, "corp_code"),
     corp_name |-> get(corp, "corp_name"),
     corp_eng_name |-> get(corp, "corp_eng_name"),
     stock_code |-> get(corp, "stock_code")]

\* root.findall('list'): the children with that tag, in document order
findall(children, tag) == SelectSeq(children, LAMBDA e : e.tag = tag)

\* lines 97-106: the loop over the <list> children, from the first one
RECURSIVE corp_list(_)
corp_list(lists) ==
    IF lists = <<>> THEN <<>>
    ELSE (IF is_listed(get(Head(lists).sub, "stock_code"))
          THEN <<listed_row(Head(lists).sub)>> ELSE <<>>)
         \o corp_list(Tail(lists))

\* how a call ends: it returns a table or raises; wrote tells whether its
\* to_csv completed
Returned(t, w) ==
    [status |-> "returned", value |-> t, exc |-> "none", wrote |-> w]
Raised(e) == [status |-> "raised", value |-> <<>>, exc |-> e, wrote |-> FALSE]
NoResult == [status |-> "none", value |-> <<>>, exc |-> "none", wrote |-> FALSE]


\* ----------------------------------------------------------- the caller
startup == <<environ, API_KEY>>
client == <<dart_key, dart_reader>>
disk == <<dirs, files>>
locals == <<response, root, corp_codes_df, i, data, arg_df, arg_path>>

\* one completed call of get_listed_corp_codes: the body the endpoint served
\* (None when the request failed), the failure the run met ("none" when it
\* met none), how the call ended and the output file it left
Run(body, failure, r, f) ==
    [body |-> body, failure |-> failure, ret |-> r,
     csv |-> get(f, join(output_dir, "listed_corp_codes.csv"))]

\* the tables the caller holds: an empty one, and those that
\* get_listed_corp_codes returned to it
CallerTables ==
    {<<>>} \cup {runs[k].ret.value : k \in 1..Len(runs)}

\* a call starts: the callee's frame is fresh
Enter(f) ==
    /\ pc = "ready"
    /\ calls < MaxCalls
    /\ calls' = calls + 1
    /\ fn' = f
    /\ ret' = NoResult
    /\ log' = <<>>
    /\ response' = None
    /\ root' = <<>>
    /\ i' = 1
    /\ data' = <<>>
    /\ arg_df' = <<>>
    /\ arg_path' = <<>>

\* ------------------------------------------------ get_listed_corp_codes
corp_data_path == join(output_dir, "dart_corp_data")
xml_zip_path == join(corp_data_path, "CORPCODE.zip")
xml_path == join(corp_data_path, "CORPCODE.xml")

\* the call ends: the caller has the result r, the disk is <<d, f>>
EndFetch(failure, r, d, f) ==
    /\ pc' = "ready"
    /\ ret' = r
    /\ dirs' = d
    /\ files' = f
    /\ log' = <<>>
    /\ runs' = Append(runs, Run(response, failure, r, f))

\* the caller calls get_listed_corp_codes(API_KEY)
FetchCall ==
    /\ Enter("get_listed_corp_codes")
    /\ pc' = "f_get"
    /\ corp_codes_df' = <<>>
    /\ UNCHANGED <<startup, client, disk, remote, runs>>

\* lines 60-65: the request and raise_for_status, inside the try block
FetchRequest ==
    /\ pc = "f_get"
    /\ \/ \E body \in Payloads :
             /\ IF remote = None THEN TRUE
                ELSE body \in Versions(remote[1])
             /\ remote' = Some(body)
             /\ response' = Some(body)
             /\ log' = Append(log, [op |-> "get"])
             /\ pc' = "f_mkdir"
             /\ UNCHANGED <<ret, disk, runs>>
       \/ \E e \in {"ConnectionError", "HTTPError"} :
             /\ EndFetch(e, Returned(<<>>, FALSE), dirs, files)
             /\ UNCHANGED <<remote, response>>
    /\ UNCHANGED <<startup, client, root, corp_codes_df, i, data, arg_df,
                   arg_path, fn, calls>>

\* lines 67-68: os.makedirs(corp_data_path, exist_ok=True)
FetchMakedirs ==
    /\ pc = "f_mkdir"
    /\ \E fault \in BOOLEAN :
          IF makedirs_raises(corp_data_path, dirs, files, fault)
          THEN EndFetch("OSError", Raised("OSError"), dirs, files)
          ELSE /\ dirs' = makedirs_dirs(corp_data_path, dirs)
               /\ pc' = "f_download"
               /\ UNCHANGED <<ret, files, runs, log>>
    /\ UNCHANGED <<startup, client, remote, locals, fn, calls>>

FetchDownload_mut_swallow ==
    /\ pc = "f_download"
    /\ \/ /\ xml_zip_path \notin dirs
          /\ files' = write(files, xml_zip_path, ZipFile(response[1]))
          /\ pc' = "f_extract"
          /\ UNCHANGED <<ret, dirs, runs, log>>
       \/ EndFetch("OSError", Raised("OSError"), dirs, files)
       \/ /\ xml_zip_path \notin dirs
          /\ files' = write(files, xml_zip_path, Partial)
          /\ pc' = "f_extract"
          /\ UNCHANGED <<ret, dirs, runs, log>>
    /\ UNCHANGED <<startup, client, remote, locals, fn, calls>>

\* lines 74-76: the body is streamed into CORPCODE.zip, outside any try
\* block; the open can fail, and a write or the stream can fail while the
\* body is read
FetchDownload ==
    /\ pc = "f_download"
    /\ \/ /\ xml_zip_path \notin dirs
          /\ files' = write(files, xml_zip_path, ZipFile(response[1]))
          /\ pc' = "f_extract"
          /\ UNCHANGED <<ret, dirs, runs, log>>
       \/ EndFetch("OSError", Raised("OSError"), dirs, files)
       \/ \E e \in {"OSError", "ChunkedEncodingError"} :
             /\ xml_zip_path \notin dirs
             /\ EndFetch(e, Raised(e), dirs,
                         write(files, xml_zip_path, Partial))
    /\ UNCHANGED <<startup, client, remote, locals, fn, calls>>

\* lines 79-85: the archive on disk is opened and CORPCODE.xml extracted;
\* only BadZipFile is caught
FetchExtract ==
    /\ pc = "f_extract"
    /\ IF ~is_zipfile(files, xml_zip_path)
       THEN EndFetch("BadZipFile", Returned(<<>>, FALSE), dirs, files)
       ELSE IF "CORPCODE.xml" \notin DOMAIN files[xml_zip_path].data.members
       THEN EndFetch("KeyError", Raised("KeyError"), dirs, files)
       ELSE LET m == files[xml_zip_path].data.members["CORPCODE.xml"] IN
            \/ /\ m.crc
               /\ xml_path \notin dirs
               /\ files' = write(files, xml_path, XmlFile(m))
               /\ pc' = "f_parse"
               /\ UNCHANGED <<ret, dirs, runs, log>>
            \/ /\ ~m.crc
               /\ xml_path \notin dirs
               /\ EndFetch("BadZipFile", Returned(<<>>, FALSE), dirs,
                           write(files, xml_path, Partial))
            \/ EndFetch("OSError", Raised("OSError"), dirs, files)
            \/ /\ xml_path \notin dirs
               /\ EndFetch("OSError", Raised("OSError"), dirs,
                           write(files, xml_path, Partial))
    /\ UNCHANGED <<startup, client, remote, locals, fn, calls>>

\* lines 89-94: ET.parse of the extracted file
FetchParse ==
    /\ pc = "f_parse"
    /\ IF files[xml_path].wellformed
       THEN /\ root' = files[xml_path].children
            /\ pc' = "f_collect"
            /\ UNCHANGED <<ret, disk, runs, log>>
       ELSE /\ EndFetch("ParseError", Returned(<<>>, FALSE), dirs, files)
            /\ UNCHANGED root
    /\ UNCHANGED <<startup, client, remote, response, corp_codes_df, i, data,
                   arg_df, arg_path, fn, calls>>

\* lines 96-112: the filter loop, the save and the return
FetchCollect ==
    /\ pc = "f_collect"
    /\ \E ft \in SaveFaults :
          LET t == corp_list(findall(root, "list"))
              s == save_df_to_csv(t,
                                  join(output_dir, "listed_corp_codes.csv"),
                                  dirs, files, ft.mkfault, ft.o)
          IN  IF s.raised
              THEN EndFetch("OSError", Raised("OSError"), s.dirs, s.files)
              ELSE EndFetch(IF s.wrote THEN "none" ELSE "to_csv",
                            Returned(t, s.wrote), s.dirs, s.files)
    /\ UNCHANGED <<startup, client, remote, locals, fn, calls>>

\* ----------------------------------------------- get_kospi_company_info
\* what dart_reader.company(corp_code) can do: raise, return None, return a
\* dict
D_Y1 == [corp_cls |-> "Y", corp_name |-> "SE", corp_code |-> "00126380",
         stock_code |-> "005930", ceo_nm |-> "CEO", induty_code |-> "264",
         est_dt |-> "19690113", ir_url |-> "", jurir_no |-> "1301110006246",
         bizr_no |-> "1248100998"]
D_Y2 == [corp_cls |-> "Y", corp_name |-> "HX", corp_code |-> "00164779"]
D_y == [corp_cls |-> "y", corp_name |-> "KQ", corp_code |-> "00100006",
        stock_code |-> "035720"]
D_status == [status |-> "013", message |-> "no data"]

Infos == {None} \cup {Some(d) : d \in {D_Y1, D_Y2, D_y, D_status}}

Outcomes == {[kind |-> "raise", info |-> None]}
            \cup {[kind |-> "value", info |-> x] : x \in Infos}

\* line 139: info and info.get('corp_cls') == 'Y'
is_kospi_mut_nocase(info) ==
    /\ info # None
    /\ DOMAIN info[1] # {}
    /\ get(info[1], "corp_cls") \in {Some("Y"), Some("y")}

is_kospi(info) ==
    /\ info # None
    /\ DOMAIN info[1] # {}
    /\ get(info[1], "corp_cls") = Some("Y")

\* lines 140-150: the dict appended for a matching response
kospi_row(d) ==
    [corp_name |-> get(d, "corp_name"),
     corp_code |-> get(d, "corp_code"),
     stock_code |-> get(d, "stock_code"),
     ceo_name |-> get(d, "ceo_nm"),
     industry_code |-> get(d, "induty_code"),
     established_date |-> get(d, "est_dt"),
     ir_url |-> get(d, "ir_url"),
     corp_reg_number |-> get(d, "jurir_no"),
     business_no |-> get(d, "bizr_no")]

\* the caller calls get_kospi_company_info(dart_reader, corp_codes_df);
\* lines 130-131
EnrichCall ==
    /\ Enter("get_kospi_company_info")
    /\ \E t \in CallerTables : corp_codes_df' = t
    /\ pc' = "e_loop"
    /\ UNCHANGED <<startup, client, disk, remote, runs>>

EnrichLookup_mut_abort ==
    /\ pc = "e_loop"
    /\ i <= Len(corp_codes_df)
    /\ \E out \in Outcomes :
          LET call == [op |-> "company", code |-> corp_codes_df[i].corp_code,
                       out |-> out]
          IN  IF out.kind = "raise"
              THEN /\ log' = Append(log, call)
                   /\ pc' = "ready"
                   /\ ret' = Raised("Exception")
                   /\ UNCHANGED <<i, data>>
              ELSE /\ data' = IF is_kospi(out.info)
                              THEN Append(data, kospi_row(out.info[1]))
                              ELSE data
                   /\ log' = log \o <<call, [op |-> "sleep"]>>
                   /\ i' = i + 1
                   /\ UNCHANGED <<pc, ret>>
    /\ UNCHANGED <<startup, client, disk, remote, response, root,
                   corp_codes_df, arg_df, arg_path, fn, runs, calls>>

\* lines 132-155: one iteration of the loop. A response is filtered and
\* time.sleep(0.7) follows (line 152); an exception of the lookup leaves the
\* try block for the except clause, which reports it and continues with the
\* next record
EnrichLookup ==
    /\ pc = "e_loop"
    /\ i <= Len(corp_codes_df)
    /\ \E out \in Outcomes :
          LET call == [op |-> "company", code |-> corp_codes_df[i].corp_code,
                       out |-> out]
          IN  IF out.kind = "raise"
              THEN /\ log' = Append(log, call)
                   /\ UNCHANGED data
              ELSE /\ data' = IF is_kospi(out.info)
                              THEN Append(data, kospi_row(out.info[1]))
                              ELSE data
                   /\ log' = log \o <<call, [op |-> "sleep"]>>
    /\ i' = i + 1
    /\ UNCHANGED <<pc, startup, client, disk, remote, response, root,
                   corp_codes_df, arg_df, arg_path, fn, ret, runs, calls>>

\* lines 157-161: the loop is over; the save and the return
EnrichSave ==
    /\ pc = "e_loop"
    /\ i > Len(corp_codes_df)
    /\ \E ft \in SaveFaults :
          LET s == save_df_to_csv(data,
                                  join(output_dir, "kospi_company_info.csv"),
                                  dirs, files, ft.mkfault, ft.o)
          IN  /\ dirs' = s.dirs
              /\ files' = s.files
              /\ ret' = IF s.raised THEN Raised("OSError")
                        ELSE Returned(data, s.wrote)
    /\ log' = <<>>
    /\ pc' = "ready"
    /\ UNCHANGED <<startup, client, remote, locals, fn, runs, calls>>

\* ------------------------------------------------------- save_df_to_csv
SavePaths == {<<"out.csv">>,
              join(BASE_DATA_DIR, "listed_corp_codes.csv"),
              join(ALT_DIR, "t.csv")}

\* the caller calls save_df_to_csv(df, file_path); lines 163-173
SaveCall ==
    /\ pc = "ready"
    /\ calls < MaxCalls
    /\ calls' = calls + 1
    /\ fn' = "save_df_to_csv"
    /\ \E t \in CallerTables, p \in SavePaths, ft \in SaveFaults :
          LET s == save_df_to_csv(t, p, dirs, files, ft.mkfault, ft.o)
          IN  /\ arg_df' = t
              /\ arg_path' = p
              /\ dirs' = s.dirs
              /\ files' = s.files
              /\ ret' = IF s.raised THEN Raised("OSError")
                        ELSE Returned(<<>>, s.wrote)
    /\ log' = <<>>
    /\ response' = None
    /\ root' = <<>>
    /\ corp_codes_df' = <<>>
    /\ i' = 1
    /\ data' = <<>>
    /\ UNCHANGED <<pc, startup, client, remote, runs>>

\* --------------------------------------------------- module start-up
Keys == {None, Some(""), Some("KEY")}

\* line 18: load_dotenv() gives the variable the value v of the .env file
\* unless the environment already has one
LoadDotenv ==
    /\ pc = "import"
    /\ \E v \in Keys : environ' = IF environ = None THEN v ELSE environ
    /\ pc' = "getenv"
    /\ UNCHANGED <<API_KEY, client, disk, remote, locals, fn, ret, log, runs,
                   calls>>

GetKey_mut_none_only ==
    /\ pc = "getenv"
    /\ API_KEY' = environ
    /\ pc' = IF environ = None THEN "fatal" ELSE "base_dir"
    /\ UNCHANGED <<environ, client, disk, remote, locals, fn, ret, log, runs,
                   calls>>

\* lines 21-24: the key is read; a missing or empty key raises ValueError
GetKey ==
    /\ pc = "getenv"
    /\ API_KEY' = environ
    /\ pc' = IF ~truthy(environ) THEN "fatal" ELSE "base_dir"
    /\ UNCHANGED <<environ, client, disk, remote, locals, fn, ret, log, runs,
                   calls>>

\* line 40: os.makedirs(BASE_DATA_DIR, exist_ok=True)
MakeBaseDir ==
    /\ pc = "base_dir"
    /\ \E fault \in BOOLEAN :
          IF makedirs_raises(BASE_DATA_DIR, dirs, files, fault)
          THEN /\ pc' = "crashed"
               /\ UNCHANGED dirs
          ELSE /\ pc' = "main"
               /\ dirs' = makedirs_dirs(BASE_DATA_DIR, dirs)
    /\ UNCHANGED <<startup, client, files, remote, locals, fn, ret, log,
                   runs, calls>>

\* lines 29-35: the caller first calls initialize_dart_api(API_KEY)
initialize_dart_api ==
    /\ pc = "main"
    /\ dart_key' = API_KEY
    /\ dart_reader' = Some(API_KEY[1])
    /\ pc' = "ready"
    /\ UNCHANGED <<startup, disk, remote, locals, fn, ret, log, runs, calls>>

\* ------------------------------------------------------ specification
NoFiles == [p \in {} |-> Partial]

Init ==
    /\ pc = "import"
    /\ environ \in Keys
    /\ API_KEY = None
    /\ dart_key = None
    /\ dart_reader = None
    /\ dirs = {}
    /\ files = NoFiles
    /\ remote = None
    /\ response = None
    /\ root = <<>>
    /\ corp_codes_df = <<>>
    /\ i = 1
    /\ data = <<>>
    /\ arg_df = <<>>
    /\ arg_path = <<>>
    /\ fn = "none"
    /\ ret = NoResult
    /\ log = <<>>
    /\ runs = <<>>
    /\ calls = 0

Next ==
    \/ LoadDotenv
    \/ GetKey
    \/ MakeBaseDir
    \/ initialize_dart_api
    \/ FetchCall
    \/ FetchRequest
    \/ FetchMakedirs
    \/ FetchDownload
    \/ FetchExtract
    \/ FetchParse
    \/ FetchCollect
    \/ EnrichCall
    \/ EnrichLookup
    \/ EnrichSave
    \/ SaveCall

Spec == Init /\ [][Next]_vars

\* The filter on every document: get_listed_corp_codes has extracted
\* CORPCODE.xml, any document of Docs, and goes on to parse and filter it.
InitFilter ==
    \E doc \in Docs :
        /\ pc = "f_parse"
        /\ environ = Some("KEY")
        /\ API_KEY = Some("KEY")
        /\ dart_key = Some("KEY")
        /\ dart_reader = Some("KEY")
        /\ dirs = Prefixes(corp_data_path)
        /\ files = (xml_zip_path :> ZipFile(DocBody(doc)))
                   @@ (xml_path :> XmlFile(Member(TRUE, TRUE, doc)))
        /\ remote = Some(DocBody(doc))
        /\ response = Some(DocBody(doc))
        /\ root = <<>>
        /\ corp_codes_df = <<>>
        /\ i = 1
        /\ data = <<>>
        /\ arg_df = <<>>
        /\ arg_path = <<>>
        /\ fn = "get_listed_corp_codes"
        /\ ret = NoResult
        /\ log = <<[op |-> "get"]>>
        /\ runs = <<>>
        /\ calls = 1

NextFilter ==
    \/ FetchParse
    \/ FetchCollect

SpecFilter == InitFilter /\ [][NextFilter]_vars

TypeOK ==
    /\ pc \in {"import", "getenv", "base_dir", "fatal", "crashed", "main",
               "ready",
               "f_get", "f_mkdir", "f_download", "f_extract", "f_parse",
               "f_collect", "e_loop"}
    /\ calls \in 0..MaxCalls
    /\ Len(runs) <= calls
    /\ ret.status \in {"none", "returned", "raised"}

\* ------------------------------------------------------------ the claims
Fetcher == "get_listed_corp_codes"
Enricher == "get_kospi_company_info"

listed_csv == join(output_dir, "listed_corp_codes.csv")
kospi_csv == join(output_dir, "kospi_company_info.csv")

\* the j-th smallest member of a set of positions
Nth(Q, j) == CHOOSE n \in Q : Cardinality({m \in Q : m < n}) = j - 1

\* the document a run parsed
DocOf(run) == run.body[1].members["CORPCODE.xml"].children
Parsed(run) == run.failure \in {"none", "to_csv"}

\* C1: get_listed_corp_codes never raises: a run that met a network
\* failure (at the request or while the body was read), a non-success HTTP
\* status, a corrupt or invalid archive or a malformed document ended by
\* returning an empty table.
C1_NeverRaises ==
    \A k \in 1..Len(runs) :
        runs[k].failure \in {"ConnectionError", "HTTPError",
                             "ChunkedEncodingError", "BadZipFile",
                             "KeyError", "ParseError"}
        => runs[k].ret = Returned(<<>>, FALSE)

\* C2: the table a run returns for a parsed document is the subsequence, in
\* document order, of the records whose stock_code is present and has
\* exactly 6 characters.
HasTicker6(e) ==
    /\ e.tag = "list"
    /\ "stock_code" \in DOMAIN e.sub
    /\ Len(e.sub.stock_code) = 6

C2_TickerFilter ==
    \A k \in 1..Len(runs) :
        Parsed(runs[k]) =>
            LET doc == DocOf(runs[k])
                Q == {n \in 1..Len(doc) : HasTicker6(doc[n])}
                out == runs[k].ret.value
            IN  /\ runs[k].ret.status = "returned"
                /\ Len(out) = Cardinality(Q)
                /\ \A j \in 1..Len(out) :
                      LET e == doc[Nth(Q, j)].sub IN
                      /\ out[j].stock_code = Some(e.stock_code)
                      /\ out[j].corp_code = get(e, "corp_code")
                      /\ out[j].corp_name = get(e, "corp_name")
                      /\ out[j].corp_eng_name = get(e, "corp_eng_name")

C2_Witness ==
    \E k \in 1..Len(runs) :
        /\ runs[k].failure = "none"
        /\ Len(runs[k].ret.value) = 1
        /\ Len(DocOf(runs[k])) = 2
        /\ DocOf(runs[k])[1] = E_long
        /\ DocOf(runs[k])[2] = E_ok2

\* C3: the table get_kospi_company_info returns has one record per input
\* row whose lookup returned a response with corp_cls = 'Y', in input order.
Lookups == SelectSeq(log, LAMBDA e : e.op = "company")

FlagIsY(out) ==
    /\ out.kind = "value"
    /\ out.info # None
    /\ "corp_cls" \in DOMAIN out.info[1]
    /\ out.info[1].corp_cls = "Y"

Matches == {n \in 1..Len(Lookups) : FlagIsY(Lookups[n].out)}

EnricherReturns == fn = Enricher /\ pc # "ready" /\ pc' = "ready"

C3_ClassFilter ==
    [][EnricherReturns =>
        /\ ret'.status = "returned"
        /\ Len(Lookups) = Len(corp_codes_df)
        /\ \A n \in 1..Len(Lookups) :
              Lookups[n].code = corp_codes_df[n].corp_code
        /\ Len(ret'.value) = Cardinality(Matches)
        /\ \A j \in 1..Len(ret'.value) :
              LET d == Lookups[Nth(Matches, j)].out.info[1]
                  r == ret'.value[j]
              IN  /\ r.corp_name = get(d, "corp_name")
                  /\ r.corp_code = get(d, "corp_code")
                  /\ r.stock_code = get(d, "stock_code")
                  /\ r.ceo_name = get(d, "ceo_nm")
                  /\ r.industry_code = get(d, "induty_code")
                  /\ r.established_date = get(d, "est_dt")
                  /\ r.ir_url = get(d, "ir_url")
                  /\ r.corp_reg_number = get(d, "jurir_no")
                  /\ r.business_no = get(d, "bizr_no")
        /\ (corp_codes_df = <<>> => ret'.value = <<>>)
      ]_vars

\* the loop is over and the stage is about to return
LoopDone == fn = Enricher /\ pc = "e_loop" /\ i > Len(corp_codes_df)

C3_Witness ==
    /\ LoopDone
    /\ Len(Lookups) = 2
    /\ ~FlagIsY(Lookups[1].out)
    /\ Lookups[1].out.kind = "value"
    /\ FlagIsY(Lookups[2].out)
    /\ Len(data) = 1

\* C4: an exception of one record's lookup does not end the stage: the
\* records collected so far are kept, every later record gets its lookup,
\* and the stage returns the matching records and writes them.
SomeLookupRaised == \E n \in 1..Len(Lookups) : Lookups[n].out.kind = "raise"

C4_LookupFailureSkipped ==
    /\ []((fn = Enricher /\ SomeLookupRaised) =>
            /\ pc = "e_loop"
            /\ ret.status = "none"
            /\ Len(data) = Cardinality(Matches))
    /\ [][(EnricherReturns /\ SomeLookupRaised) =>
            /\ ret'.status = "returned"
            /\ Len(Lookups) = Len(corp_codes_df)
            /\ Len(ret'.value) = Cardinality(Matches)
            /\ ret'.wrote => get(files', kospi_csv) = Some(to_csv(ret'.value))
          ]_vars

C4_Witness ==
    /\ LoopDone
    /\ Len(Lookups) = 2
    /\ Lookups[1].out.kind = "raise"
    /\ FlagIsY(Lookups[2].out)
    /\ Len(data) = 1

\* C5: every lookup attempt is followed by the pause before the next lookup
\* is issued: no two lookups without a pause between them.
C5_PauseAfterEveryLookup ==
    fn = Enricher =>
        \A n \in 1..(Len(log) - 1) :
            log[n].op = "company" => log[n + 1].op # "company"

\* C6: save_df_to_csv never raises, and when its write completes the parent
\* directories exist afterwards and the file holds the table.
C6_SaveNeverRaises ==
    (fn = "save_df_to_csv" /\ pc = "ready") =>
        /\ ret.status = "returned"
        /\ ret.wrote =>
              /\ Prefixes(dirname(arg_path)) \subseteq dirs
              /\ get(files, arg_path) = Some(to_csv(arg_df))

\* C7: with the key absent or empty when it is read, the program ends with
\* the configuration error and nothing else happens: no call, no request,
\* no lookup, no client, no directory and no file.
C7_MissingKeyIsFatal ==
    (pc \notin {"import", "getenv"} /\ ~truthy(environ)) =>
        /\ pc = "fatal"
        /\ calls = 0
        /\ fn = "none"
        /\ log = <<>>
        /\ dart_key = None
        /\ dart_reader = None
        /\ dirs = {}
        /\ files = NoFiles

C7_Witness == pc = "fatal" /\ API_KEY = Some("")

\* C8: two runs of get_listed_corp_codes that met no failure and were served
\* the same body return the same table and leave the same output file.
C8_Idempotent ==
    \A j, k \in 1..Len(runs) :
        (/\ j < k
         /\ runs[j].failure = "none"
         /\ runs[k].failure = "none"
         /\ runs[j].body = runs[k].body)
        => /\ runs[j].ret = runs[k].ret
           /\ runs[j].csv = runs[k].csv
           /\ runs[k].csv = Some(to_csv(runs[k].ret.value))

C8_Witness ==
    /\ Len(runs) = 2
    /\ runs[1].failure = "none"
    /\ runs[2].failure = "none"
    /\ Len(runs[2].ret.value) = 2
    /\ runs[1].csv = runs[2].csv

\* C9 as stated: whenever a stage returns, its output file holds exactly the
\* table that the run returned, also after a soft failure.
StageOut == IF fn = Fetcher THEN listed_csv ELSE kospi_csv

C9_FileHoldsReturned ==
    (pc = "ready" /\ fn \in {Fetcher, Enricher} /\ ret.status = "returned")
    => get(files, StageOut) = Some(to_csv(ret.value))

\* C9 as amended: when a stage returns after a save whose write did not
\* fail, its output file holds exactly the table that the run returned,
\* whatever was there before; a get_listed_corp_codes run that ends in a
\* soft failure leaves the output file as it was.
WroteOutput == ret.wrote

SoftFailed ==
    /\ fn = Fetcher
    /\ runs[Len(runs)].failure \in {"ConnectionError", "HTTPError",
                                    "BadZipFile", "ParseError"}

C9_Amended ==
    [][(/\ pc # "ready"
        /\ pc' = "ready"
        /\ fn' \in {Fetcher, Enricher}
        /\ ret'.status = "returned")
       => /\ WroteOutput' => get(files', StageOut') = Some(to_csv(ret'.value))
          /\ SoftFailed' => /\ ret'.value = <<>>
                            /\ get(files', StageOut') = get(files, StageOut)
      ]_vars

C9_Witness ==
    /\ Len(runs) = 2
    /\ runs[1].failure = "none"
    /\ runs[1].ret.value # <<>>
    /\ runs[2].failure = "HTTPError"
    /\ runs[2].ret = Returned(<<>>, FALSE)
    /\ runs[2].csv = Some(to_csv(runs[1].ret.value))

\* C10: within a run of get_listed_corp_codes the extraction starts only
\* when the complete body is in the archive file, the document file is
\* written only by the extraction, the output table is written only after
\* the document was extracted and parsed, and a run whose request fails
\* writes nothing.
FetchPcs == {"f_get", "f_mkdir", "f_download", "f_extract", "f_parse",
             "f_collect"}

ArchiveOnDisk ==
    /\ response # None
    /\ xml_zip_path \in DOMAIN files
    /\ files[xml_zip_path] = ZipFile(response[1])

DocumentOnDisk ==
    /\ ArchiveOnDisk
    /\ xml_path \in DOMAIN files
    /\ files[xml_path] = XmlFile(response[1].members["CORPCODE.xml"])

C10_Order ==
    /\ [](/\ pc = "f_extract" => ArchiveOnDisk
          /\ pc = "f_parse" => DocumentOnDisk
          /\ pc = "f_collect" => /\ DocumentOnDisk
                                 /\ files[xml_path].wellformed
                                 /\ root = files[xml_path].children)
    /\ [][(pc \in FetchPcs) =>
            /\ get(files', xml_zip_path) # get(files, xml_zip_path)
                  => pc = "f_download"
            /\ get(files', xml_path) # get(files, xml_path)
                  => pc = "f_extract" /\ ArchiveOnDisk
            /\ get(files', listed_csv) # get(files, listed_csv)
                  => pc = "f_collect" /\ DocumentOnDisk
            /\ (pc = "f_get" /\ pc' = "ready")
                  => files' = files /\ dirs' = dirs
         ]_vars

C10_Witness ==
    /\ pc = "ready"
    /\ fn = Fetcher
    /\ runs[Len(runs)].failure = "none"
    /\ DocumentOnDisk
    /\ files[listed_csv] = to_csv(ret.value)
    /\ Len(ret.value) = 2
====
